---- MODULE Spec2Model ----
(***************************************************************************)
(* A model of AriaDriver (src/lib/index.js): selector resolution with its  *)
(* advisory warnings, focus transfer and activation, count, and the        *)
(* open-popup widget operation exercised by src/test/tests/popup.js.       *)
(*                                                                         *)
(* Strings that the code parses or compares are sequences of one-character *)
(* strings; JavaScript's null is the one-element tuple Null.               *)
(***************************************************************************)
EXTENDS Integers, Sequences, FiniteSets, TLC

VARIABLES
  page,       \* the document: a sequence of elements in document order
  active,     \* index of document.activeElement (0: the body)
  timers,     \* pending page timers: [el |-> container index, left |-> ms]
  options,    \* the options the constructor was given
  patience,   \* this._patience
  listeners,  \* number of 'warning' listeners attached to the emitter
  pc,         \* "idle", or "polling" while openPopup awaits the popup
  fixture,    \* the document as the page's URL serves it
  call,       \* the operation last issued: [op, selector]
  before,     \* the document that operation was issued against
  error,      \* the error it threw (NoError: none)
  value,      \* the value it returned
  earlier,    \* count: the value the same count returned just before
  log,        \* the remote commands it issued, in order
  emitted,    \* the warning codes it passed to emit, in order
  received,   \* what each listener's callback recorded during it
  alt,        \* [n |-> what the same call does with n listeners attached]
  baseline,   \* openPopup: open containers counted before activation
  elapsed     \* openPopup: ms since the poll began

vars == <<page, active, timers, options, patience, listeners, pc, fixture, call,
          before, error, value, earlier, log, emitted, received, alt, baseline,
          elapsed>>

-----------------------------------------------------------------------------
(* Bounds *)

MaxElems == 2
MaxListeners == 2

-----------------------------------------------------------------------------
(* Strings *)

Null == <<"NULL">>
S_null == <<"n", "u", "l", "l">>
S_true == <<"t", "r", "u", "e">>
S_false == <<"f", "a", "l", "s", "e">>
S_empty == <<>>
S_1 == <<"1">>
S_0 == <<"0">>
S_neg1 == <<"-", "1">>
S_x == <<"x">>
S_2x == <<" ", "2", "x">>
S_menu == <<"m", "e", "n", "u">>
S_listbox == <<"l", "i", "s", "t", "b", "o", "x">>
S_tree == <<"t", "r", "e", "e">>
S_grid == <<"g", "r", "i", "d">>
S_dialog == <<"d", "i", "a", "l", "o", "g">>
S_bogus == <<"b", "o", "g", "u", "s">>
S_button == <<"b", "u", "t", "t", "o", "n">>

\* String(v): null becomes the text null.
JsString(v) == IF v = Null THEN S_null ELSE v

Digits == {"0", "1", "2", "3", "4", "5", "6", "7", "8", "9"}

DigitVal(c) ==
  CASE c = "0" -> 0 [] c = "1" -> 1 [] c = "2" -> 2 [] c = "3" -> 3
    [] c = "4" -> 4 [] c = "5" -> 5 [] c = "6" -> 6 [] c = "7" -> 7
    [] c = "8" -> 8 [] c = "9" -> 9

RECURSIVE SkipSpace(_)
SkipSpace(s) ==
  IF s # <<>> /\ Head(s) = " " THEN SkipSpace(Tail(s)) ELSE s

RECURSIVE ReadDigits(_, _, _)
ReadDigits(s, acc, any) ==
  IF s # <<>> /\ Head(s) \in Digits
    THEN ReadDigits(Tail(s), acc * 10 + DigitVal(Head(s)), TRUE)
    ELSE [nan |-> ~any, val |-> acc]

\* parseInt(v, 10): leading white space, an optional sign, then the longest
\* run of decimal digits; NaN when there is none.
ParseInt(v) ==
  LET s == SkipSpace(JsString(v))
      neg == s # <<>> /\ Head(s) = "-"
      body == IF s # <<>> /\ Head(s) \in {"-", "+"} THEN Tail(s) ELSE s
      r == ReadDigits(body, 0, FALSE)
  IN [nan |-> r.nan, val |-> IF neg THEN 0 - r.val ELSE r.val]

\* x > 0 in JavaScript: false for NaN.
GreaterThanZero(n) == ~n.nan /\ n.val > 0

-----------------------------------------------------------------------------
(* The document and the remote commands of the WebDriver session *)

\* An element: the label a selector names, its attributes (Null: absent),
\* whether focus() makes it the active element, and what the page's script
\* does when Enter is pressed on it: NoPopup, or the number of ms after which
\* it reveals the element that follows it.
NoPopup == 0 - 1

Element(label, tabindex, hidden, focusable, role, haspopup, delay) ==
  [label |-> label, tabindex |-> tabindex, hidden |-> hidden,
   focusable |-> focusable, role |-> role, haspopup |-> haspopup,
   delay |-> delay]

\* The selector of countOpen: [role]:not([aria-hidden="true"]).
PopupSelector == "[role]:not([aria-hidden=\"true\"])"

\* Whether a CSS selector matches an element.
Matches(el, selector) ==
  IF selector = PopupSelector
    THEN el.role # Null /\ el.hidden # S_true
    ELSE el.label = selector

\* driver.findElements(By.css(selector)): the matches in document order.
FindElements(pg, selector) ==
  SelectSeq([i \in 1..Len(pg) |-> i], LAMBDA i : Matches(pg[i], selector))

\* element.getAttribute(name)
GetAttribute(pg, el, name) ==
  CASE name = "tabindex" -> pg[el].tabindex
    [] name = "aria-hidden" -> pg[el].hidden
    [] name = "aria-haspopup" -> pg[el].haspopup
    [] name = "role" -> pg[el].role

Cmd(name, el, arg) == [cmd |-> name, el |-> el, arg |-> arg]

\* The page's timers after ms more milliseconds, and the page once the
\* timers that came due have revealed their containers.
Due(tm, ms) == {t.el : t \in {u \in tm : u.left <= ms}}
Advance(tm, ms) == {[el |-> t.el, left |-> t.left - ms] : t \in {u \in tm : u.left > ms}}
NextDue(tm) == CHOOSE d \in {t.left : t \in tm} : \A t \in tm : d <= t.left
Reveal(pg, els) ==
  [i \in 1..Len(pg) |-> IF i \in els THEN [pg[i] EXCEPT !.hidden = Null] ELSE pg[i]]

-----------------------------------------------------------------------------
(* One call in progress: the document, what the call has done so far, and  *)
(* the exception it has thrown, if any.                                    *)

NoError == [code |-> "", args |-> <<>>]
AriaDriverError(code, args) == [code |-> code, args |-> args]

NOT_FOUND == "ARIADRIVER-ELEMENT-NOT-FOUND"
AMBIGUOUS == "ARIADRIVER-AMBIGUOUS-REFERENCE"
POOR_SEMANTICS == "ARIADRIVER-POOR-SEMANTICS"
UNFOCUSABLE == "ARIADRIVER-ELEMENT-UNFOCUSABLE"
INVALID_MARKUP == "ARIADRIVER-INVALID-MARKUP"
TIMEOUT == "ARIADRIVER-TIMEOUT"

\* emittedAt holds, for each warning emitted, the number of commands issued
\* before it.
Begin(pg, act, tm, n) ==
  [page |-> pg, active |-> act, timers |-> tm, log |-> <<>>,
   emitted |-> <<>>, emittedAt |-> <<>>, received |-> [i \in 1..n |-> <<>>],
   error |-> NoError, target |-> 0, value |-> 0, baseline |-> 0,
   elapsed |-> 0, polling |-> FALSE]

Threw(m) == m.error # NoError
Throw(m, err) == [m EXCEPT !.error = err]
Issue(m, c) == [m EXCEPT !.log = Append(@, c)]

\* Mutant: an event nobody listens to is thrown, whatever its name.
Emit_Unheard(m, event, code) ==
  IF Len(m.received) = 0
    THEN Throw(m, AriaDriverError(code, <<>>))
    ELSE [m EXCEPT !.emitted = Append(@, code),
                   !.emittedAt = Append(@, Len(m.log)),
                   !.received = [i \in DOMAIN @ |-> Append(@[i], code)]]

\* EventEmitter.emit(event, err): every listener of the event is called with
\* err; an 'error' event nobody listens to is thrown instead. The listeners
\* here are those of the test's setup, attached to 'warning', which record
\* the code.
Emit(m, event, code) ==
  IF event = "warning"
    THEN [m EXCEPT !.emitted = Append(@, code),
                   !.emittedAt = Append(@, Len(m.log)),
                   !.received = [i \in DOMAIN @ |-> Append(@[i], code)]]
    ELSE IF event = "error"
      THEN Throw(m, AriaDriverError(code, <<>>))
      ELSE m

-----------------------------------------------------------------------------
(* AriaDriver *)

defaults == [patience |-> 1000]

\* An options object with no property.
NoOptions == [k \in {} |-> 0]

\* Object.assign({}, defaults, options)
Assign(base, given) ==
  [k \in DOMAIN base \cup DOMAIN given |->
     IF k \in DOMAIN given THEN given[k] ELSE base[k]]

\* constructor(options): this._patience
Constructor(given) == Assign(defaults, given).patience

\* Mutant: targets.length >= 1
AmbiguousMatch_Any(targets) == Len(targets) >= 1

\* targets.length > 1
AmbiguousMatch(targets) == Len(targets) > 1

\* Mutant: parseInt(tabIndex, 10) >= 0
PositiveTabIndex_NotNegative(tabIndex) ==
  ~ParseInt(tabIndex).nan /\ ParseInt(tabIndex).val >= 0

\* Mutant: parseInt(tabIndex, 10) > 1
PositiveTabIndex_AboveOne(tabIndex) ==
  ~ParseInt(tabIndex).nan /\ ParseInt(tabIndex).val > 1

\* parseInt(tabIndex, 10) > 0
PositiveTabIndex(tabIndex) == GreaterThanZero(ParseInt(tabIndex))

\* Mutant: targets[targets.length - 1]
Chosen_Last(targets) == targets[Len(targets)]

\* targets[0]
Chosen(targets) == targets[1]

\* The event the warnings are emitted as.
WarningEvent == "warning"

\* Mutant: new AriaDriverError('ARIADRIVER-ELEMENT-NOT-FOUND')
NotFoundError_Bare(selector) == AriaDriverError(NOT_FOUND, <<>>)

\* new AriaDriverError('ARIADRIVER-ELEMENT-NOT-FOUND', [selector])
NotFoundError(selector) == AriaDriverError(NOT_FOUND, <<selector>>)

\* Mutant: the ambiguity is reported once for every surplus match.
_findOne_PerMatch(selector, m) ==
  LET targets == FindElements(m.page, selector)
      m1 == Issue(m, Cmd("findElements", 0, selector))
      RECURSIVE Each(_, _)
      Each(mm, n) ==
        IF n <= 1 THEN mm ELSE Each(Emit(mm, WarningEvent, AMBIGUOUS), n - 1)
      m2 == Each(m1, Len(targets))
      m3 == Issue(m2, Cmd("getAttribute", Chosen(targets), "tabindex"))
      tabIndex == GetAttribute(m.page, Chosen(targets), "tabindex")
      m4 == IF PositiveTabIndex(tabIndex)
              THEN Emit(m3, WarningEvent, POOR_SEMANTICS) ELSE m3
  IN IF Len(targets) = 0
       THEN Throw(m1, NotFoundError(selector))
       ELSE IF Threw(m2) THEN m2
       ELSE IF Threw(m4) THEN m4
       ELSE [m4 EXCEPT !.target = Chosen(targets)]

\* Mutant: the tabindex is examined before the number of matches.
_findOne_TabIndexFirst(selector, m) ==
  LET targets == FindElements(m.page, selector)
      m1 == Issue(m, Cmd("findElements", 0, selector))
      m2 == Issue(m1, Cmd("getAttribute", Chosen(targets), "tabindex"))
      tabIndex == GetAttribute(m.page, Chosen(targets), "tabindex")
      m3 == IF PositiveTabIndex(tabIndex)
              THEN Emit(m2, WarningEvent, POOR_SEMANTICS) ELSE m2
      m4 == IF AmbiguousMatch(targets)
              THEN Emit(m3, WarningEvent, AMBIGUOUS) ELSE m3
  IN IF Len(targets) = 0
       THEN Throw(m1, NotFoundError(selector))
       ELSE IF Threw(m3) THEN m3
       ELSE IF Threw(m4) THEN m4
       ELSE [m4 EXCEPT !.target = Chosen(targets)]

\* Mutant: the number of matches is examined for ambiguity, as any number
\* but one, before it is examined for emptiness.
_findOne_WarnsEmpty(selector, m) ==
  LET targets == FindElements(m.page, selector)
      m1 == Issue(m, Cmd("findElements", 0, selector))
      m2 == IF Len(targets) # 1
              THEN Emit(m1, WarningEvent, AMBIGUOUS) ELSE m1
      m3 == Issue(m2, Cmd("getAttribute", Chosen(targets), "tabindex"))
      tabIndex == GetAttribute(m.page, Chosen(targets), "tabindex")
      m4 == IF PositiveTabIndex(tabIndex)
              THEN Emit(m3, WarningEvent, POOR_SEMANTICS) ELSE m3
  IN IF Len(targets) = 0
       THEN Throw(m2, NotFoundError(selector))
       ELSE IF Threw(m2) THEN m2
       ELSE IF Threw(m4) THEN m4
       ELSE [m4 EXCEPT !.target = Chosen(targets)]

_findOne(selector, m) ==
  LET targets == FindElements(m.page, selector)
      m1 == Issue(m, Cmd("findElements", 0, selector))
      m2 == IF AmbiguousMatch(targets)
              THEN Emit(m1, WarningEvent, AMBIGUOUS) ELSE m1
      m3 == Issue(m2, Cmd("getAttribute", Chosen(targets), "tabindex"))
      tabIndex == GetAttribute(m.page, Chosen(targets), "tabindex")
      m4 == IF PositiveTabIndex(tabIndex)
              THEN Emit(m3, WarningEvent, POOR_SEMANTICS) ELSE m3
  IN IF Len(targets) = 0
       THEN Throw(m1, NotFoundError(selector))
       ELSE IF Threw(m2) THEN m2
       ELSE IF Threw(m4) THEN m4
       ELSE [m4 EXCEPT !.target = Chosen(targets)]

\* Mutant: any aria-hidden at all counts as hidden.
IsHidden_Truthy(attr) == attr # Null

\* await target.getAttribute('aria-hidden') === 'true'
IsHidden(attr) == attr = S_true

\* The script of executeScript: arguments[0].focus(), then whether the
\* element is document.activeElement.
FocusScript(m, target) ==
  LET m1 == Issue(m, Cmd("executeScript", target, "focus"))
  IN [m1 EXCEPT !.active = IF m.page[target].focusable THEN target ELSE @]

\* Mutant: the key is not sent.
SendKeys_Dropped(m, target) == m

\* target.sendKeys(Key.ENTER), and the page's response to the key: unless
\* it is already doing so, it reveals the element after the target, now or
\* after the target's delay.
SendKeys(m, target) ==
  LET m1 == Issue(m, Cmd("sendKeys", target, "ENTER"))
      el == m.page[target]
      opens == /\ el.delay # NoPopup
               /\ target < Len(m.page)
               /\ m.page[target + 1].hidden = S_true
               /\ \A t \in m.timers : t.el # target + 1
  IN IF ~opens THEN m1
     ELSE IF el.delay = 0
       THEN [m1 EXCEPT !.page = Reveal(@, {target + 1})]
       ELSE [m1 EXCEPT !.timers = @ \cup {[el |-> target + 1, left |-> el.delay]}]

_use(selector, target, m) ==
  LET m1 == Issue(m, Cmd("getAttribute", target, "aria-hidden"))
      m2 == FocusScript(m1, target)
      accepted == m2.active = target
  IN IF IsHidden(GetAttribute(m.page, target, "aria-hidden"))
       THEN Throw(m1, AriaDriverError(UNFOCUSABLE, <<selector>>))
       ELSE IF ~accepted
         THEN Throw(m2, AriaDriverError(UNFOCUSABLE, <<selector>>))
         ELSE SendKeys(m2, target)

\* Mutant: the selector is resolved again before the activation.
use_Requery(selector, m) ==
  LET m1 == _findOne(selector, m)
      m2 == _findOne(selector, m1)
  IN IF Threw(m1) THEN m1
     ELSE IF Threw(m2) THEN m2 ELSE _use(selector, m2.target, m2)

use(selector, m) ==
  LET m1 == _findOne(selector, m)
  IN IF Threw(m1) THEN m1 ELSE _use(selector, m1.target, m1)

\* Mutant: count presses Enter on the first element it counted.
count_Activating(selector, m) ==
  LET targets == FindElements(m.page, selector)
      m1 == Issue(m, Cmd("findElements", 0, selector))
      m2 == IF Len(targets) > 0 THEN SendKeys(m1, targets[1]) ELSE m1
  IN [m2 EXCEPT !.value = Len(targets)]

\* Mutant: count resolves the selector as use does, then counts.
count_Resolving(selector, m) ==
  LET m1 == _findOne(selector, m)
  IN IF Threw(m1) THEN m1
     ELSE [m1 EXCEPT !.value = Len(FindElements(m.page, selector))]

count(selector, m) ==
  LET m1 == Issue(m, Cmd("findElements", 0, selector))
  IN [m1 EXCEPT !.value = Len(FindElements(m.page, selector))]

-----------------------------------------------------------------------------
(* The popup widget: openPopup *)

\* The period of the poll, in ms.
Interval == 50

\* The values of aria-haspopup that announce a popup.
PopupTokens == {S_true, S_menu, S_listbox, S_tree, S_grid, S_dialog}

\* Mutant: any aria-haspopup that is present passes.
MarkupFault_Lenient(hasPopup) == IF hasPopup = Null THEN "absent" ELSE ""

\* The markup rule of the popup: which of the three faults the trigger's
\* aria-haspopup has ("": none).
MarkupFault(hasPopup) ==
  IF hasPopup = Null THEN "absent"
  ELSE IF hasPopup = S_false THEN "negative"
  ELSE IF hasPopup \notin PopupTokens THEN "unrecognized"
  ELSE ""

\* The number of open containers.
CountOpen(pg) == Len(FindElements(pg, PopupSelector))

\* The success predicate of the popup: one more container is open than
\* before the activation.
PopupOpened(m) == CountOpen(m.page) = m.baseline + 1

\* openPopup up to the start of the wait: resolve the trigger, validate its
\* markup, count the open containers, activate.
openPopup(selector, m) ==
  LET m1 == _findOne(selector, m)
      m2 == Issue(m1, Cmd("getAttribute", m1.target, "aria-haspopup"))
      fault == MarkupFault(GetAttribute(m.page, m1.target, "aria-haspopup"))
      m3 == [Issue(m2, Cmd("findElements", 0, PopupSelector))
               EXCEPT !.baseline = CountOpen(m.page)]
      m4 == _use(selector, m1.target, m3)
  IN IF Threw(m1) THEN m1
     ELSE IF fault # ""
       THEN Throw(m2, AriaDriverError(INVALID_MARKUP, <<selector, fault>>))
       ELSE IF Threw(m4) THEN m4
       ELSE [m4 EXCEPT !.polling = TRUE]

\* Mutant: the wait is given one interval more.
Expired_Late(ms, patienceMs) == ms > patienceMs + Interval

\* Whether the wait has run out.
Expired(ms, patienceMs) == ms > patienceMs

\* Mutant: a round that finds the predicate false presses Enter again.
poll_Retrying(selector, patienceMs, m) ==
  LET m1 == Issue(m, Cmd("findElements", 0, PopupSelector))
  IN IF PopupOpened(m)
       THEN [m1 EXCEPT !.polling = FALSE]
       ELSE IF Expired(m.elapsed, patienceMs)
         THEN [Throw(m1, AriaDriverError(TIMEOUT, <<selector>>))
                 EXCEPT !.polling = FALSE]
         ELSE [SendKeys(m1, m.target)
                 EXCEPT !.elapsed = @ + Interval,
                        !.page = Reveal(@, Due(m.timers, Interval)),
                        !.timers = Advance(@, Interval)]

\* One round of the poll: evaluate the predicate; succeed, or time out, or
\* sleep for the interval (the page's timers run meanwhile).
poll(selector, patienceMs, m) ==
  LET m1 == Issue(m, Cmd("findElements", 0, PopupSelector))
  IN IF PopupOpened(m)
       THEN [m1 EXCEPT !.polling = FALSE]
       ELSE IF Expired(m.elapsed, patienceMs)
         THEN [Throw(m1, AriaDriverError(TIMEOUT, <<selector>>))
                 EXCEPT !.polling = FALSE]
         ELSE [m1 EXCEPT !.elapsed = @ + Interval,
                         !.page = Reveal(@, Due(m.timers, Interval)),
                         !.timers = Advance(@, Interval)]

-----------------------------------------------------------------------------
(* The documents and the options the driver is run against *)

TabIndexValues == {Null, S_1, S_0, S_neg1, S_x}

\* The controls, labelled "a": every tabindex on a control that takes focus,
\* and the controls that do not go on to be activated: aria-hidden "true" or
\* refusing focus, with a tabindex of 1 or none, and aria-hidden "false"
\* (which does go on).
Controls ==
  {Element("a", t, Null, TRUE, Null, Null, NoPopup) : t \in TabIndexValues}
    \cup {Element("a", t, f[1], f[2], Null, Null, NoPopup) :
            t \in {Null, S_1}, f \in {<<S_true, TRUE>>, <<Null, FALSE>>}}
    \cup {Element("a", Null, S_false, TRUE, Null, Null, NoPopup)}

Plain == Element("b", Null, Null, TRUE, Null, Null, NoPopup)

RECURSIVE SeqsUpTo(_, _)
SeqsUpTo(S, n) ==
  IF n = 0 THEN {<<>>}
  ELSE LET shorter == SeqsUpTo(S, n - 1)
       IN shorter \cup {Append(q, x) : q \in shorter, x \in S}

\* Longer documents of bare elements, for selectors with many matches.
Bare == Element("a", Null, Null, TRUE, Null, Null, NoPopup)
Crowds == SeqsUpTo({Bare, Plain}, MaxElems + 1) \ SeqsUpTo({Bare, Plain}, MaxElems)

\* A document whose one control has a tabindex that parseInt reads as 2.
Garbled == Element("a", S_2x, Null, TRUE, Null, Null, NoPopup)

ControlPages ==
  SeqsUpTo(Controls \cup {Plain}, MaxElems) \cup Crowds \cup {<<Garbled>>}

\* The triggers of a popup, labelled "a": every aria-haspopup on a trigger
\* that opens its popup at once, and, announcing a menu, the triggers that
\* open it at once, late, or never, with a role or a tabindex of their own.
Delays == {0, 120, 1000}

Triggers ==
  {Element("a", Null, Null, TRUE, Null, h, 0) :
     h \in {Null, S_empty, S_false, S_bogus, S_true, S_menu}}
    \cup {Element("a", t, Null, TRUE, r, S_menu, d) :
            t \in {Null, S_1}, r \in {Null, S_button},
            d \in Delays \cup {NoPopup}}

Container == Element("b", Null, S_true, TRUE, S_menu, Null, NoPopup)

PopupPages == {<<t, Container>> : t \in Triggers}

\* The options the driver is constructed with.
Options == {NoOptions} \cup {[patience |-> p] : p \in {0 - 120, 0, 100}}

\* The runs: controls under the default options, popups under each option.
Runs ==
  {[fixture |-> pg, options |-> NoOptions] : pg \in ControlPages}
    \cup {[fixture |-> pg, options |-> o] : pg \in PopupPages, o \in Options}


Selectors == {"a", "b"}

-----------------------------------------------------------------------------
(* The state machine *)

NoCall == [op |-> "none", selector |-> ""]
NoEarlier == [seen |-> FALSE, value |-> 0]

Counts == 0..MaxListeners

\* The state of a call that ran as m, for each number of listeners.
Load(ms) ==
  LET m == ms[listeners]
  IN /\ page' = m.page
     /\ active' = m.active
     /\ timers' = m.timers
     /\ error' = m.error
     /\ value' = m.value
     /\ log' = m.log
     /\ emitted' = m.emitted
     /\ received' = m.received
     /\ baseline' = m.baseline
     /\ elapsed' = m.elapsed
     /\ pc' = IF m.polling THEN "polling" ELSE "idle"
     /\ alt' = ms

Fresh(pg, act, tm) == [n \in Counts |-> Begin(pg, act, tm, n)]

\* No call observed: the driver as constructed, or the page or the listeners
\* changed since the last call.
Reset(pg, act, tm) ==
  /\ page' = pg
  /\ active' = act
  /\ timers' = tm
  /\ call' = NoCall
  /\ before' = pg
  /\ error' = NoError
  /\ value' = 0
  /\ earlier' = NoEarlier
  /\ log' = <<>>
  /\ emitted' = <<>>
  /\ received' = <<>>
  /\ baseline' = 0
  /\ elapsed' = 0
  /\ pc' = "idle"
  /\ alt' = Fresh(pg, act, tm)

Init ==
  /\ \E run \in Runs :
       /\ fixture = run.fixture
       /\ options = run.options
       /\ patience = Constructor(run.options)
  /\ page = fixture
  /\ active = 0
  /\ timers = {}
  /\ listeners = 0
  /\ pc = "idle"
  /\ call = NoCall
  /\ before = fixture
  /\ error = NoError
  /\ value = 0
  /\ earlier = NoEarlier
  /\ log = <<>>
  /\ emitted = <<>>
  /\ received = <<>>
  /\ baseline = 0
  /\ elapsed = 0
  /\ alt = Fresh(fixture, 0, {})

\* ariadriver.on('warning', ...)
On ==
  /\ pc = "idle"
  /\ listeners < MaxListeners
  /\ listeners' = listeners + 1
  /\ Reset(page, active, timers)
  /\ UNCHANGED <<options, patience, fixture>>

\* ariadriver.removeAllListeners()
RemoveAllListeners ==
  /\ pc = "idle"
  /\ listeners > 0
  /\ listeners' = 0
  /\ Reset(page, active, timers)
  /\ UNCHANGED <<options, patience, fixture>>

\* ariadriver.get(url): the document is loaded afresh.
Get ==
  /\ pc = "idle"
  /\ Reset(fixture, 0, {})
  /\ UNCHANGED <<options, patience, listeners, fixture>>

\* Time passes between calls, until the page's next timer fires.
Elapse ==
  /\ pc = "idle"
  /\ timers # {}
  /\ Reset(Reveal(page, Due(timers, NextDue(timers))), active,
           Advance(timers, NextDue(timers)))
  /\ UNCHANGED <<options, patience, listeners, fixture>>

Start(op, selector) ==
  /\ pc = "idle"
  /\ call' = [op |-> op, selector |-> selector]
  /\ before' = page
  /\ earlier' = IF op = "count" /\ call = [op |-> op, selector |-> selector]
                  THEN [seen |-> TRUE, value |-> value] ELSE NoEarlier
  /\ UNCHANGED <<options, patience, listeners, fixture>>

CallUse(selector) ==
  /\ Start("use", selector)
  /\ Load([n \in Counts |-> use(selector, Begin(page, active, timers, n))])

CallCount(selector) ==
  /\ Start("count", selector)
  /\ Load([n \in Counts |-> count(selector, Begin(page, active, timers, n))])

CallOpenPopup(selector) ==
  /\ Start("openPopup", selector)
  /\ Load([n \in Counts |-> openPopup(selector, Begin(page, active, timers, n))])

Poll ==
  /\ pc = "polling"
  /\ Load([n \in Counts |-> poll(call.selector, patience, alt[n])])
  /\ UNCHANGED <<options, patience, listeners, fixture, call, before, earlier>>

Next ==
  \/ On
  \/ RemoveAllListeners
  \/ Get
  \/ Elapse
  \/ \E selector \in Selectors : CallUse(selector)
  \/ \E selector \in Selectors \cup {PopupSelector} : CallCount(selector)
  \/ \E selector \in Selectors : CallOpenPopup(selector)
  \/ Poll

Spec == Init /\ [][Next]_vars

-----------------------------------------------------------------------------
(* What the claims speak of *)

\* The call has returned or thrown.
Returned(op) == pc = "idle" /\ call.op = op

\* The elements the call's selector matched when it was issued, and the
\* first of them in document order.
Hits == {i \in 1..Len(before) : before[i].label = call.selector}
First == CHOOSE i \in Hits : \A j \in Hits : i <= j

Times(codes, code) == Cardinality({i \in DOMAIN codes : codes[i] = code})
Issued(cmd) == \E i \in DOMAIN log : log[i].cmd = cmd
IssuedOn(cmd, el, arg) == \E i \in DOMAIN log : log[i] = Cmd(cmd, el, arg)

-----------------------------------------------------------------------------
(* C1 *)

\* The tabindex values of the documents that are integers above 0.
PositiveValues == {S_1, S_2x}

UniqueShownPlainTarget ==
  /\ Cardinality(Hits) = 1
  /\ before[First].hidden # S_true
  /\ before[First].tabindex \notin PositiveValues

\* C1 as stated: use of a selector matching exactly one element, with no
\* aria-hidden="true" and no positive tabindex, succeeds with no warning.
C1_AsStated ==
  (Returned("use") /\ UniqueShownPlainTarget)
    => (error = NoError /\ emitted = <<>>)

\* C1, amended: use of a selector matching exactly one element that has no
\* aria-hidden="true", has no positive tabindex and accepts focus succeeds:
\* it throws nothing, presses Enter on the element and emits no warning.
C1_UseSucceedsSilently ==
  (Returned("use") /\ UniqueShownPlainTarget /\ before[First].focusable)
    => /\ error = NoError
       /\ emitted = <<>>
       /\ IssuedOn("sendKeys", First, "ENTER")

C1_Witness ==
  /\ Returned("use")
  /\ UniqueShownPlainTarget
  /\ before[First].focusable
  /\ before[First].tabindex = S_neg1
  /\ before[First].hidden = Null
  /\ Len(before) = 2
  /\ error = NoError
  /\ active = First

-----------------------------------------------------------------------------
(* C2 *)

\* C2: when the selector matches no element, use and openPopup throw
\* ELEMENT_NOT_FOUND with that selector as its argument.
C2_NotFound ==
  (pc = "idle" /\ call.op \in {"use", "openPopup"} /\ Hits = {})
    => error = [code |-> "ARIADRIVER-ELEMENT-NOT-FOUND",
                args |-> <<call.selector>>]

C2_Witness ==
  /\ Returned("openPopup")
  /\ Hits = {}
  /\ Len(before) > 0
  /\ call.selector = "b"
  /\ error.code = NOT_FOUND

-----------------------------------------------------------------------------
(* C3 *)

\* C3: when the selector matches k > 1 elements, resolution does not fail:
\* the call goes on to read aria-hidden (use) or aria-haspopup (openPopup) of
\* the first match, reads no attribute of another element, and has emitted
\* AMBIGUOUS_REFERENCE exactly once.
C3_Ambiguous ==
  (pc = "idle" /\ call.op \in {"use", "openPopup"} /\ Cardinality(Hits) > 1)
    => /\ error.code # NOT_FOUND
       /\ Times(emitted, AMBIGUOUS) = 1
       /\ IssuedOn("getAttribute", First, "tabindex")
       /\ \/ IssuedOn("getAttribute", First, "aria-hidden")
          \/ IssuedOn("getAttribute", First, "aria-haspopup")
       /\ \A i \in DOMAIN log : log[i].el \in {0, First}

C3_Witness ==
  /\ Returned("use")
  /\ Cardinality(Hits) = 3
  /\ error = NoError
  /\ Times(emitted, AMBIGUOUS) = 1

-----------------------------------------------------------------------------
(* C7 *)

\* C7: use of a selector whose one match has tabindex="1", no
\* aria-hidden="true" and accepts focus emits POOR_SEMANTICS once, and
\* nothing else, presses Enter on the element and throws nothing.
C7_PoorSemantics ==
  (/\ Returned("use")
   /\ Cardinality(Hits) = 1
   /\ before[First].tabindex = S_1
   /\ before[First].hidden # S_true
   /\ before[First].focusable)
    => /\ emitted = <<POOR_SEMANTICS>>
       /\ error = NoError
       /\ IssuedOn("sendKeys", First, "ENTER")

C7_Witness ==
  /\ Returned("use")
  /\ Cardinality(Hits) = 1
  /\ before[First].tabindex = S_1
  /\ before[First].hidden # S_true
  /\ before[First].focusable
  /\ emitted = <<POOR_SEMANTICS>>
  /\ listeners = 1
  /\ received = <<<<POOR_SEMANTICS>>>>

-----------------------------------------------------------------------------
(* C4 *)

\* C4: openPopup on a trigger whose aria-haspopup is absent, "false" or no
\* popup token throws INVALID_MARKUP at once, having issued no focus script,
\* no key and no query for open containers.
C4_InvalidMarkup ==
  (/\ call.op = "openPopup"
   /\ Hits # {}
   /\ before[First].haspopup \notin PopupTokens)
    => /\ pc = "idle"
       /\ error.code = INVALID_MARKUP
       /\ error.args[1] = call.selector
       /\ ~Issued("executeScript")
       /\ ~Issued("sendKeys")
       /\ ~IssuedOn("findElements", 0, PopupSelector)
       /\ elapsed = 0
       /\ page = before

C4_Witness ==
  /\ Returned("openPopup")
  /\ Hits # {}
  /\ before[First].haspopup = S_false
  /\ before[First].delay = 0
  /\ error = AriaDriverError(INVALID_MARKUP, <<"a", "negative">>)

-----------------------------------------------------------------------------
(* C5 *)

\* A valid trigger: the selector's one match, announcing a popup, shown,
\* accepting focus, with no positive tabindex.
ValidTrigger ==
  /\ Cardinality(Hits) = 1
  /\ before[First].haspopup \in PopupTokens
  /\ before[First].hidden # S_true
  /\ before[First].focusable
  /\ before[First].tabindex \notin PositiveValues

\* Its activation reveals its container, which was hidden, within patience.
OpensInTime ==
  /\ before[First].delay # NoPopup
  /\ before[First].delay <= patience
  /\ First < Len(before)
  /\ before[First + 1].hidden = S_true
  /\ before[First + 1].role # Null

OpenBefore == Cardinality({i \in 1..Len(before) :
                 before[i].role # Null /\ before[i].hidden # S_true})
OpenNow == Cardinality({i \in 1..Len(page) :
              page[i].role # Null /\ page[i].hidden # S_true})

\* C5 as stated: openPopup on a valid trigger whose container appears within
\* patience succeeds with no warning, and exactly one element is then an
\* open container.
C5_AsStated ==
  (Returned("openPopup") /\ ValidTrigger /\ OpensInTime)
    => (error = NoError /\ emitted = <<>> /\ OpenNow = 1)

\* C5, amended: openPopup on a valid trigger whose container appears within
\* patience throws nothing and emits no warning, and when it returns exactly
\* one more element is an open container than when it was called.
C5_PopupOpens ==
  (call.op = "openPopup" /\ ValidTrigger /\ OpensInTime)
    => /\ error = NoError
       /\ emitted = <<>>
       /\ pc = "idle" => OpenNow = OpenBefore + 1

C5_Witness ==
  /\ Returned("openPopup")
  /\ ValidTrigger
  /\ OpensInTime
  /\ before[First].delay = 1000
  /\ before[First].role # Null
  /\ OpenNow = 2
  /\ elapsed = 1000

-----------------------------------------------------------------------------
(* C6 *)

\* Its activation reveals nothing.
NeverOpens == before[First].delay = NoPopup /\ timers = {}

\* C6 as stated: openPopup on a valid trigger whose container never appears
\* throws TIMEOUT, no sooner than patience ms into the wait and no later than
\* one interval after that.
C6_AsStated ==
  (Returned("openPopup") /\ ValidTrigger /\ NeverOpens)
    => /\ error = AriaDriverError(TIMEOUT, <<call.selector>>)
       /\ patience <= elapsed
       /\ elapsed <= patience + Interval

\* C6 under a patience that is a duration (0 or more): the same.
C6_UnderDuration ==
  (Returned("openPopup") /\ ValidTrigger /\ NeverOpens /\ patience >= 0)
    => /\ error = AriaDriverError(TIMEOUT, <<call.selector>>)
       /\ patience <= elapsed
       /\ elapsed <= patience + Interval

-----------------------------------------------------------------------------
(* C8 *)

WarningCodes == {AMBIGUOUS, POOR_SEMANTICS}

\* C8: whatever the number of listeners, 0, 1 or more, the call throws the
\* same error or returns the same value, issues the same commands in the
\* same order and leaves the same document; no call throws a warning; with
\* no listener the warnings are emitted all the same and nobody receives
\* them.
C8_Advisory ==
  call.op # "none" =>
    /\ \A n \in Counts :
         /\ alt[n].error = error
         /\ alt[n].value = value
         /\ alt[n].log = log
         /\ alt[n].page = page
         /\ alt[n].active = active
         /\ alt[n].emitted = emitted
         /\ Len(alt[n].received) = n
         /\ \A i \in 1..n : alt[n].received[i] = emitted
    /\ error.code \notin WarningCodes

C8_Witness ==
  /\ Returned("use")
  /\ listeners = 2
  /\ emitted = <<AMBIGUOUS, POOR_SEMANTICS>>
  /\ received = <<emitted, emitted>>
  /\ alt[0].received = <<>>
  /\ alt[0].log = log
  /\ error = NoError

-----------------------------------------------------------------------------
(* C9 *)

\* C9 as stated: patience is what the constructor was given, 1000 when it
\* was given none, at every moment of the instance's life, and is 0 or more.
C9_AsStated ==
  /\ patience = IF "patience" \in DOMAIN options
                  THEN options.patience ELSE 1000
  /\ patience >= 0

\* C9, the part that holds: patience is what the constructor was given, 1000
\* when it was given none, at every moment of the instance's life.
C9_Fixed ==
  patience = IF "patience" \in DOMAIN options THEN options.patience ELSE 1000

-----------------------------------------------------------------------------
(* C10 *)

\* C10: a count issued right after the same count, nothing having happened
\* to the page in between, returns what that one returned.
C10_CountRepeats ==
  (call.op = "count" /\ earlier.seen) => value = earlier.value

C10_Witness ==
  /\ call = [op |-> "count", selector |-> PopupSelector]
  /\ earlier = [seen |-> TRUE, value |-> 2]
  /\ value = 2
  /\ timers = {}
  /\ active = 1

-----------------------------------------------------------------------------
(* C11 *)

\* The call reached activation: it resolved a target and, in openPopup, the
\* target's markup passed.
Activating ==
  /\ call.op \in {"use", "openPopup"}
  /\ Hits # {}
  /\ call.op = "openPopup" => before[First].haspopup \in PopupTokens

\* Position of the first command of that name in the log (0: none).
At(cmd) ==
  IF Issued(cmd)
    THEN CHOOSE i \in DOMAIN log :
           log[i].cmd = cmd /\ \A j \in DOMAIN log : log[j].cmd = cmd => i <= j
    ELSE 0

\* C11: activation is ordered and stops at its first failure. A target whose
\* aria-hidden is "true" makes the call throw ELEMENT_UNFOCUSABLE with no
\* focus script issued; one that is not the active element after the focus
\* script makes it throw ELEMENT_UNFOCUSABLE with no key sent; any other
\* target, aria-hidden "false" included, is sent Enter. Enter is sent only
\* to the element the focus script was run on before it, which is then the
\* active element, and never in a call that threw ELEMENT_NOT_FOUND,
\* ELEMENT_UNFOCUSABLE or INVALID_MARKUP.
C11_OrderedActivation ==
  /\ (Activating /\ before[First].hidden = S_true)
       => /\ error = AriaDriverError(UNFOCUSABLE, <<call.selector>>)
          /\ ~Issued("executeScript")
          /\ ~Issued("sendKeys")
  /\ (Activating /\ before[First].hidden # S_true /\ ~before[First].focusable)
       => /\ error = AriaDriverError(UNFOCUSABLE, <<call.selector>>)
          /\ IssuedOn("executeScript", First, "focus")
          /\ ~Issued("sendKeys")
  /\ (Activating /\ before[First].hidden # S_true /\ before[First].focusable)
       => /\ IssuedOn("sendKeys", First, "ENTER")
          /\ error.code \in {"", TIMEOUT}
  /\ Issued("sendKeys")
       => /\ error.code \notin {NOT_FOUND, UNFOCUSABLE, INVALID_MARKUP}
          /\ 0 < At("getAttribute")
          /\ \E h \in DOMAIN log :
               /\ log[h] = Cmd("getAttribute", log[At("sendKeys")].el, "aria-hidden")
               /\ h < At("executeScript")
          /\ At("executeScript") < At("sendKeys")
          /\ log[At("executeScript")].el = log[At("sendKeys")].el
          /\ active = log[At("sendKeys")].el
          /\ Times([i \in DOMAIN log |-> log[i].cmd], "sendKeys") = 1
          /\ Times([i \in DOMAIN log |-> log[i].cmd], "executeScript") = 1

\* A use that stopped at the read-back, and took the focus from nobody.
C11_Witness ==
  /\ Returned("use")
  /\ Activating
  /\ ~before[First].focusable
  /\ error.code = UNFOCUSABLE
  /\ IssuedOn("executeScript", First, "focus")
  /\ ~Issued("sendKeys")
  /\ active # First

-----------------------------------------------------------------------------
(* C12 *)

\* The waits alone: the popup documents under each option, and a poll that
\* is under way always gets its next round.
PopupInit == Init /\ fixture \in PopupPages
PopupSpec == PopupInit /\ [][Next]_vars /\ WF_vars(Poll)

OpenedNow == OpenNow = baseline + 1

\* C12: a round of the poll that finds the predicate true returns success
\* at once, with that one evaluation and no time gone by; a round that
\* finds it false with more than patience ms elapsed throws TIMEOUT; any
\* other round sleeps one interval; and every poll under way ends.
C12_WaitTerminates ==
  /\ [][/\ (pc = "polling" /\ OpenedNow)
             => /\ pc' = "idle"
                /\ error' = NoError
                /\ elapsed' = elapsed
                /\ page' = page
                /\ log' = Append(log, Cmd("findElements", 0, PopupSelector))
        /\ (pc = "polling" /\ ~OpenedNow /\ elapsed > patience)
             => /\ pc' = "idle"
                /\ error' = AriaDriverError(TIMEOUT, <<call.selector>>)
                /\ elapsed' = elapsed
        /\ (pc = "polling" /\ ~OpenedNow /\ elapsed <= patience)
             => /\ pc' = "polling"
                /\ elapsed' = elapsed + Interval
                /\ error' = NoError]_vars
  /\ (pc = "polling") ~> (pc = "idle")

\* A wait that slept three times and succeeded on its fourth evaluation.
C12_Witness ==
  /\ Returned("openPopup")
  /\ error = NoError
  /\ before[First].delay = 120
  /\ elapsed = 150
  /\ Times(log, Cmd("findElements", 0, PopupSelector)) = 5
  /\ OpenedNow

-----------------------------------------------------------------------------
(* C13 *)

\* The commands of one openPopup, in order: resolution, validation, the
\* count of open containers, activation.
Protocol ==
  LET trigger == IF Hits = {} THEN 0 ELSE First
  IN <<Cmd("findElements", 0, call.selector),
       Cmd("getAttribute", trigger, "tabindex"),
       Cmd("getAttribute", trigger, "aria-haspopup"),
       Cmd("findElements", 0, PopupSelector),
       Cmd("getAttribute", trigger, "aria-hidden"),
       Cmd("executeScript", trigger, "focus"),
       Cmd("sendKeys", trigger, "ENTER")>>

\* The evaluations of the predicate the wait has made.
Rounds == Len(log) - Len(Protocol)

\* C13: the commands of an openPopup are a prefix of the protocol, each
\* issued once and in order, followed, once the wait has begun, by
\* evaluations of the predicate and nothing else: one per interval elapsed,
\* so nothing is tried again. The call waits only after the whole protocol
\* and ends in one terminal state, which its commands determine: success
\* or TIMEOUT after the wait, ELEMENT_NOT_FOUND after the query alone,
\* INVALID_MARKUP after the validation, ELEMENT_UNFOCUSABLE within the
\* activation.
C13_OneWay ==
  call.op = "openPopup" =>
    /\ \A i \in DOMAIN log :
         IF i <= Len(Protocol)
           THEN IF i = 1
                  THEN log[i] = Cmd("findElements", 0, call.selector)
                  ELSE Hits # {} /\ log[i] = Protocol[i]
           ELSE log[i] = Cmd("findElements", 0, PopupSelector)
    /\ pc = "polling" =>
         /\ error = NoError
         /\ Rounds >= 0
         /\ Rounds * Interval = elapsed
    /\ pc = "idle" =>
         /\ error.code \in {"", NOT_FOUND, INVALID_MARKUP, UNFOCUSABLE, TIMEOUT}
         /\ error.code \in {"", TIMEOUT} <=> Rounds >= 1
         /\ Rounds >= 1 => (Rounds - 1) * Interval = elapsed
         /\ error.code = NOT_FOUND <=> Len(log) = 1
         /\ error.code = INVALID_MARKUP <=> Len(log) = 3
         /\ error.code = UNFOCUSABLE <=> Len(log) \in {5, 6}

\* A wait of 1000 ms that timed out on its 22nd evaluation.
C13_Witness ==
  /\ Returned("openPopup")
  /\ error.code = TIMEOUT
  /\ patience = 1000
  /\ Rounds = 22
  /\ elapsed = 1050

-----------------------------------------------------------------------------
(* C14 *)

\* The calls that resolve a selector.
Resolving == call.op \in {"use", "openPopup"}

\* C14: a call that resolves a selector emits at most one
\* AMBIGUOUS_REFERENCE and at most one POOR_SEMANTICS, so at most two
\* warnings, whatever the number of matches and the tabindex; and every
\* listener receives each of them once.
C14_OncePerCondition ==
  Resolving =>
    /\ Times(emitted, AMBIGUOUS) <= 1
    /\ Times(emitted, POOR_SEMANTICS) <= 1
    /\ \A i \in DOMAIN emitted : emitted[i] \in {AMBIGUOUS, POOR_SEMANTICS}
    /\ Len(emitted) <= 2
    /\ \A l \in DOMAIN received : received[l] = emitted

\* Several matches, the first with a positive tabindex: two warnings.
C14_Witness ==
  /\ Returned("use")
  /\ Cardinality(Hits) >= 2
  /\ emitted = <<AMBIGUOUS, POOR_SEMANTICS>>
  /\ listeners >= 1

-----------------------------------------------------------------------------
(* C15 *)

\* The call got past its resolution: the command that follows the tabindex
\* read was issued on the same element.
Resolved ==
  /\ error.code # NOT_FOUND
  /\ Len(log) >= 3
  /\ log[2] = Cmd("getAttribute", First, "tabindex")
  /\ log[3].cmd = "getAttribute"
  /\ log[3].el = First
  /\ log[3].arg = (IF call.op = "use" THEN "aria-hidden" ELSE "aria-haspopup")

\* C15: a call that resolves a selector with a match emits POOR_SEMANTICS
\* exactly when the first match has a tabindex that parses to an integer
\* above 0 ("1", and " 2x", which parseInt reads as 2); with no tabindex,
\* "x", "0" or "-1" it emits none; either way the resolution succeeds and
\* the call goes on to its next step.
C15_PoorSemanticsIff ==
  (Resolving /\ Hits # {}) =>
    /\ Times(emitted, POOR_SEMANTICS) = 1 <=>
         before[First].tabindex \in PositiveValues
    /\ Times(emitted, POOR_SEMANTICS) = 0 <=>
         before[First].tabindex \in {Null, S_x, S_0, S_neg1}
    /\ Resolved

\* Both sides occur: the control with tabindex " 2x" warned and was
\* activated.
C15_Witness ==
  /\ Returned("use")
  /\ Hits # {}
  /\ before[First].tabindex = S_2x
  /\ emitted = <<POOR_SEMANTICS>>
  /\ error = NoError
  /\ Resolved
  /\ IssuedOn("sendKeys", First, "ENTER")

\* The other side: a tabindex of "-1" is read and nothing is emitted.
C15_Quiet ==
  /\ Returned("use")
  /\ Hits # {}
  /\ before[First].tabindex = S_neg1
  /\ emitted = <<>>
  /\ Resolved

-----------------------------------------------------------------------------
(* C16 *)

\* The commands addressed to an element.
ElementCommands == {"getAttribute", "executeScript", "sendKeys"}

\* C16: a use call queries its selector once, as its first command, and
\* issues no other query; every command addressed to an element (the
\* tabindex read, the aria-hidden read, the focus script, the Enter key) is
\* addressed to the first match of that query, never to a later match.
C16_OneQueryOneTarget ==
  Returned("use") =>
    /\ log[1] = Cmd("findElements", 0, call.selector)
    /\ Times(log, Cmd("findElements", 0, call.selector)) = 1
    /\ \A i \in DOMAIN log :
         i > 1 => /\ log[i].cmd \in ElementCommands
                  /\ Hits # {}
                  /\ log[i].el = First
                  /\ before[log[i].el].label = call.selector
    /\ \A h \in Hits : h # First => ~\E i \in DOMAIN log : log[i].el = h

\* Two matches, the first activated with all four element commands.
C16_Witness ==
  /\ Returned("use")
  /\ Cardinality(Hits) >= 2
  /\ error = NoError
  /\ Len(log) = 5
  /\ \A i \in 2..5 : log[i].el = First
  /\ \E h \in Hits : h > First

-----------------------------------------------------------------------------
(* C17 *)

\* The number of commands the call had issued when it emitted its i-th
\* warning.
EmittedAt == alt[listeners].emittedAt

\* The positions in the log of the commands of the activation.
ActivationAt ==
  {i \in DOMAIN log :
     \/ log[i].cmd \in {"executeScript", "sendKeys"}
     \/ log[i].cmd = "getAttribute" /\ log[i].arg = "aria-hidden"}

\* C17: a use call emits AMBIGUOUS_REFERENCE, if at all, right after the
\* query and before POOR_SEMANTICS, which it emits, if at all, right after
\* the tabindex read; both precede the aria-hidden read, the focus script
\* and the key. A call that then throws ELEMENT_UNFOCUSABLE has emitted,
\* and every listener has received, the warnings its matches call for: both
\* of them when the selector has several matches and the first has a
\* positive tabindex.
C17_WarningsComeFirst ==
  (Returned("use") /\ Hits # {}) =>
    /\ Len(EmittedAt) = Len(emitted)
    /\ emitted \in {<<>>, <<AMBIGUOUS>>, <<POOR_SEMANTICS>>,
                    <<AMBIGUOUS, POOR_SEMANTICS>>}
    /\ \A i \in DOMAIN emitted :
         /\ emitted[i] = AMBIGUOUS => EmittedAt[i] = 1
         /\ emitted[i] = POOR_SEMANTICS => EmittedAt[i] = 2
         /\ \A j \in ActivationAt : EmittedAt[i] < j
    /\ error.code = UNFOCUSABLE =>
         /\ Times(emitted, AMBIGUOUS) = 1 <=> Cardinality(Hits) > 1
         /\ Times(emitted, POOR_SEMANTICS) = 1 <=>
              before[First].tabindex \in PositiveValues
         /\ \A l \in DOMAIN received : received[l] = emitted

\* A use that threw ELEMENT_UNFOCUSABLE after handing both warnings to its
\* listener, before it read aria-hidden.
C17_Witness ==
  /\ Returned("use")
  /\ error.code = UNFOCUSABLE
  /\ emitted = <<AMBIGUOUS, POOR_SEMANTICS>>
  /\ EmittedAt = <<1, 2>>
  /\ listeners = 1
  /\ received = <<emitted>>
  /\ ActivationAt # {}

-----------------------------------------------------------------------------
(* C18 *)

\* C18: use of a selector with no match throws ELEMENT_NOT_FOUND naming the
\* selector, having issued the element query and nothing else: no attribute
\* read, no focus script, no key; no warning is emitted or received, and
\* the document, the focus and the pending timers are as they were.
C18_NothingButTheQuery ==
  (Returned("use") /\ Hits = {}) =>
    /\ error = AriaDriverError(NOT_FOUND, <<call.selector>>)
    /\ log = <<Cmd("findElements", 0, call.selector)>>
    /\ ~Issued("getAttribute")
    /\ ~Issued("executeScript")
    /\ ~Issued("sendKeys")
    /\ emitted = <<>>
    /\ \A l \in DOMAIN received : received[l] = <<>>
    /\ page = before

\* A use of "b" on a document of two elements "a", heard by a listener.
C18_Witness ==
  /\ Returned("use")
  /\ Hits = {}
  /\ Len(before) = MaxElems
  /\ error.code = NOT_FOUND
  /\ Len(log) = 1
  /\ listeners >= 1

-----------------------------------------------------------------------------
(* C19 *)

\* The elements the call's selector matched when it was issued, for the
\* selector of the open containers too.
Matched == {i \in 1..Len(before) : Matches(before[i], call.selector)}

\* C19: count returns the number of elements the selector matches, 0 when
\* it matches none, and throws nothing; it emits no warning, whatever the
\* number of matches and their tabindex, and no listener receives one; it
\* issues the element query and no other command, so no attribute read, no
\* focus script and no key; the document is as it was.
C19_CountIsPure ==
  Returned("count") =>
    /\ value = Cardinality(Matched)
    /\ error = NoError
    /\ emitted = <<>>
    /\ \A l \in DOMAIN received : received[l] = <<>>
    /\ log = <<Cmd("findElements", 0, call.selector)>>
    /\ page = before

\* A count of two matches, the first with a positive tabindex, heard by a
\* listener.
C19_Witness ==
  /\ Returned("count")
  /\ value = MaxElems
  /\ \E i \in Matched :
       /\ before[i].tabindex \in PositiveValues
       /\ \A j \in Matched : i <= j
  /\ listeners >= 1
  /\ received[1] = <<>>

\* A count of no match returned 0.
C19_Zero ==
  /\ Returned("count")
  /\ Matched = {}
  /\ before # <<>>
  /\ value = 0
  /\ error = NoError
====
